---- MODULE Spec2Model ----
(***************************************************************************)
(* Model of scripts/pg_stub.c: the stand-in definitions of the PostgreSQL  *)
(* server symbols that the unit-test binary references.                    *)
(*                                                                         *)
(* The state is the process image as the stand-ins can see it: the         *)
(* globals the file defines, and the int cells of the caller that may be   *)
(* handed to SPI_getbinval as its isnull out-parameter.  Every stand-in    *)
(* function is an operator from the image at entry and its arguments to    *)
(* the value it returns and the image at exit; one action per function     *)
(* applies it to arguments drawn from bounded sets.                        *)
(***************************************************************************)
EXTENDS Integers, Sequences, FiniteSets

\* ---------------------------------------------------------------- bounds
\* Non-null opaque handles / strings are 1..NPtrs.
NPtrs == 1
\* int, long, size_t and uint32_t arguments go up to MaxInt.
MaxInt == 1
\* The caller owns the int cells 1..NCells.
NCells == 2

\* ---------------------------------------------------------------- values
NULL == 0

Ptrs     == NULL .. NPtrs          \* void *, const char *
Ints     == -1 .. MaxInt           \* int, long, int32_t
Flags    == {0, 1}                 \* int used as a boolean (read-only flag)
Sizes    == 0 .. MaxInt            \* size_t
Oids     == 0 .. MaxInt            \* uint32_t
Cells    == 1 .. NCells            \* addresses of the caller's int cells
IntPtrs  == {NULL} \cup Cells      \* int *
CellVals == {0, 1}                 \* what an is-null flag holds: false, true
VarArgs  == {<<>>} \cup {<<i>> : i \in Ints}   \* the "..." of the err* functions

GlobalPtrNames ==
    {"CacheMemoryContext", "CurrentMemoryContext", "CurTransactionContext",
     "ErrorContext", "MessageContext", "PortalContext", "PostmasterContext",
     "TopMemoryContext", "TopTransactionContext",
     "error_context_stack", "PG_exception_stack", "SPI_tuptable"}

GlobalNames == GlobalPtrNames \cup {"SPI_processed"}

\* The initialisers of the globals, as the loader applies them.
LoadGlobals ==
    [CacheMemoryContext    |-> NULL,
     CurrentMemoryContext  |-> NULL,
     CurTransactionContext |-> NULL,
     ErrorContext          |-> NULL,
     MessageContext        |-> NULL,
     PortalContext         |-> NULL,
     PostmasterContext     |-> NULL,
     TopMemoryContext      |-> NULL,
     TopTransactionContext |-> NULL,
     error_context_stack   |-> NULL,
     PG_exception_stack    |-> NULL,
     SPI_processed         |-> 0,
     SPI_tuptable          |-> NULL]

\* ---------------------------------------------------------------- state
VARIABLES
    globals,    \* the globals of the file, by name
    heap,       \* the caller's int cells, by address
    history,    \* calls of stand-ins since the library was loaded: 0, 1, or 2 for more
    last        \* the last step: function, arguments, returned value, image at entry

vars == <<globals, heap, history, last>>

\* The image a function body runs in.  written collects the cells stored to,
\* fault is set by a store through a null pointer.
Image == [globals |-> globals, heap |-> heap, written |-> {}, fault |-> FALSE]

\* return v;
Return(m, v) == [ret |-> <<v>>, m |-> m]
\* falling off the end of a void function
ReturnVoid(m) == [ret |-> <<>>, m |-> m]

\* *p = v;
Store(m, p, v) ==
    IF p = NULL
    THEN [m EXCEPT !.fault = TRUE]
    ELSE [m EXCEPT !.heap[p] = v, !.written = @ \cup {p}]

\* ---------------------------------------------------------------- the stand-ins
\* Each function of the file, under its own name.  The definitions with a
\* suffix (_nonnull, _clears, _echo, ...) are faulty variants of the function
\* that follows them; the properties below are tried against them.
palloc0_nonnull(m, size) == Return(m, IF size > 0 THEN 1 ELSE NULL)
palloc0(m, size) == Return(m, NULL)

AllocSetContextCreateInternal(m, parent, name, minContextSize, initBlockSize, maxBlockSize) ==
    Return(m, NULL)

MemoryContextDelete(m, ctx) == ReturnVoid(m)

MemoryContextGetParent(m, ctx) == Return(m, NULL)

pfree_clears(m, ptr) ==
    ReturnVoid(IF ptr \in Cells THEN Store(m, ptr, 0) ELSE m)
pfree(m, ptr) == ReturnVoid(m)

CopyErrorData(m) == Return(m, NULL)

FreeErrorData(m, edata) == ReturnVoid(m)

errcode_echo(m, sqlerrcode) == Return(m, sqlerrcode)
errcode(m, sqlerrcode) == Return(m, 0)

errmsg(m, fmt, va) == Return(m, 0)

errdetail(m, fmt, va) == Return(m, 0)

errhint(m, fmt, va) == Return(m, 0)

errcontext_msg(m, fmt, va) == Return(m, 0)

errstart(m, elevel, domain) == Return(m, 0)

errfinish(m, filename, lineno, funcname) == ReturnVoid(m)

GetCurrentTransactionIdIfAny(m) == Return(m, 0)

IsBinaryCoercible_same(m, a, b) == Return(m, IF a = b THEN 1 ELSE 0)
IsBinaryCoercible(m, a, b) == Return(m, 0)

format_type_extended(m, oid, typmod, flags) == Return(m, NULL)

SPI_connect(m) == Return(m, -1)

SPI_finish_ok(m) == Return(m, 1)
SPI_finish(m) == Return(m, -1)

SPI_execute_counting(m, cmd, ro, cnt) ==
    Return([m EXCEPT !.globals.SPI_processed = 1],
           IF m.globals.SPI_processed = 0 THEN -1 ELSE -2)
SPI_execute(m, cmd, ro, cnt) == Return(m, -1)

SPI_execute_with_args_sets(m, cmd, nargs, argtypes, values, nulls, ro, cnt) ==
    Return([m EXCEPT !.globals.SPI_processed = 1, !.globals.SPI_tuptable = 1], -1)
SPI_execute_with_args(m, cmd, nargs, argtypes, values, nulls, ro, cnt) ==
    Return(m, -1)

SPI_getbinval_clears(m, tuple, tupdesc, fnumber, isnull) ==
    Return(IF isnull # NULL THEN Store(m, isnull, 0) ELSE m, NULL)
SPI_getbinval_unguarded(m, tuple, tupdesc, fnumber, isnull) ==
    Return(Store(m, isnull, 1), NULL)
SPI_getbinval(m, tuple, tupdesc, fnumber, isnull) ==
    Return(IF isnull # NULL THEN Store(m, isnull, 1) ELSE m, NULL)

SPI_gettypeid_echo(m, tupdesc, fnumber) == Return(m, fnumber)
SPI_gettypeid(m, tupdesc, fnumber) == Return(m, 0)

\* ---------------------------------------------------------------- steps
StubNames ==
    {"palloc0", "AllocSetContextCreateInternal", "MemoryContextDelete",
     "MemoryContextGetParent", "pfree", "CopyErrorData", "FreeErrorData",
     "errcode", "errmsg", "errdetail", "errhint", "errcontext_msg", "errstart",
     "errfinish", "GetCurrentTransactionIdIfAny", "IsBinaryCoercible",
     "format_type_extended", "SPI_connect", "SPI_finish", "SPI_execute",
     "SPI_execute_with_args", "SPI_getbinval", "SPI_gettypeid"}

\* The functions declared void.
VoidNames == {"MemoryContextDelete", "pfree", "FreeErrorData", "errfinish"}

\* The functions declared to return a pointer (void *, char *).
PtrNames ==
    {"palloc0", "AllocSetContextCreateInternal", "MemoryContextGetParent",
     "CopyErrorData", "format_type_extended", "SPI_getbinval"}

\* The functions declared to return int or uint32_t.
IntNames == (StubNames \ VoidNames) \ PtrNames

Heaps == [Cells -> CellVals]

Init ==
    /\ globals = LoadGlobals
    /\ heap \in Heaps
    /\ history = 0
    /\ last = [fn |-> "Load", args |-> <<>>, ret |-> <<>>,
               before |-> [globals |-> LoadGlobals, heap |-> heap],
               written |-> {}, fault |-> FALSE]

\* A caller calls the stand-in fn with args; out is what the body computes.
\* A process that took a fault runs no further.
Invoke(fn, args, out) ==
    /\ ~last.fault
    /\ globals' = out.m.globals
    /\ heap' = out.m.heap
    /\ history' = IF history < 2 THEN history + 1 ELSE history
    /\ last' = [fn |-> fn, args |-> args, ret |-> out.ret,
                before |-> [globals |-> globals, heap |-> heap],
                written |-> out.m.written, fault |-> out.m.fault]

\* The library is loaded (again): the globals take their initialisers, in a
\* process whose caller memory holds anything.
Load ==
    /\ globals' = LoadGlobals
    /\ heap' \in Heaps
    /\ history' = 0
    /\ last' = [fn |-> "Load", args |-> <<>>, ret |-> <<>>,
                before |-> [globals |-> LoadGlobals, heap |-> heap'],
                written |-> {}, fault |-> FALSE]

\* The caller assigns one of its own int cells.
CallerStore ==
    /\ ~last.fault
    /\ \E c \in Cells, v \in CellVals :
          /\ heap' = [heap EXCEPT ![c] = v]
          /\ last' = [fn |-> "CallerStore", args |-> <<>>, ret |-> <<>>,
                      before |-> [globals |-> globals, heap |-> heap],
                      written |-> {c}, fault |-> FALSE]
    /\ UNCHANGED <<globals, history>>

Call_palloc0 ==
    \E size \in Sizes :
        Invoke("palloc0", <<size>>, palloc0(Image, size))

\* The sizes are drawn as callers pass them: min <= init <= max.
Call_AllocSetContextCreateInternal ==
    \E parent \in Ptrs, name \in Ptrs, minContextSize \in Sizes,
       initBlockSize \in Sizes, maxBlockSize \in Sizes :
        /\ minContextSize <= initBlockSize
        /\ initBlockSize <= maxBlockSize
        /\ Invoke("AllocSetContextCreateInternal",
               <<parent, name, minContextSize, initBlockSize, maxBlockSize>>,
               AllocSetContextCreateInternal(Image, parent, name, minContextSize,
                                             initBlockSize, maxBlockSize))

Call_MemoryContextDelete ==
    \E ctx \in Ptrs :
        Invoke("MemoryContextDelete", <<ctx>>, MemoryContextDelete(Image, ctx))

Call_MemoryContextGetParent ==
    \E ctx \in Ptrs :
        Invoke("MemoryContextGetParent", <<ctx>>, MemoryContextGetParent(Image, ctx))

\* ptr is any address: an opaque handle or a cell of the caller.
Call_pfree ==
    \E ptr \in Ptrs \cup Cells :
        Invoke("pfree", <<ptr>>, pfree(Image, ptr))

Call_CopyErrorData ==
    Invoke("CopyErrorData", <<>>, CopyErrorData(Image))

Call_FreeErrorData ==
    \E edata \in Ptrs :
        Invoke("FreeErrorData", <<edata>>, FreeErrorData(Image, edata))

Call_errcode ==
    \E sqlerrcode \in Ints :
        Invoke("errcode", <<sqlerrcode>>, errcode(Image, sqlerrcode))

Call_errmsg ==
    \E fmt \in Ptrs, va \in VarArgs :
        Invoke("errmsg", <<fmt, va>>, errmsg(Image, fmt, va))

Call_errdetail ==
    \E fmt \in Ptrs, va \in VarArgs :
        Invoke("errdetail", <<fmt, va>>, errdetail(Image, fmt, va))

Call_errhint ==
    \E fmt \in Ptrs, va \in VarArgs :
        Invoke("errhint", <<fmt, va>>, errhint(Image, fmt, va))

Call_errcontext_msg ==
    \E fmt \in Ptrs, va \in VarArgs :
        Invoke("errcontext_msg", <<fmt, va>>, errcontext_msg(Image, fmt, va))

Call_errstart ==
    \E elevel \in Ints, domain \in Ptrs :
        Invoke("errstart", <<elevel, domain>>, errstart(Image, elevel, domain))

Call_errfinish ==
    \E filename \in Ptrs, lineno \in Ints, funcname \in Ptrs :
        Invoke("errfinish", <<filename, lineno, funcname>>,
               errfinish(Image, filename, lineno, funcname))

Call_GetCurrentTransactionIdIfAny ==
    Invoke("GetCurrentTransactionIdIfAny", <<>>, GetCurrentTransactionIdIfAny(Image))

Call_IsBinaryCoercible ==
    \E a \in Oids, b \in Oids :
        Invoke("IsBinaryCoercible", <<a, b>>, IsBinaryCoercible(Image, a, b))

Call_format_type_extended ==
    \E oid \in Oids, typmod \in Ints, flags \in Ints :
        Invoke("format_type_extended", <<oid, typmod, flags>>,
               format_type_extended(Image, oid, typmod, flags))

Call_SPI_connect ==
    Invoke("SPI_connect", <<>>, SPI_connect(Image))

Call_SPI_finish ==
    Invoke("SPI_finish", <<>>, SPI_finish(Image))

Call_SPI_execute ==
    \E cmd \in Ptrs, ro \in Flags, cnt \in Ints :
        Invoke("SPI_execute", <<cmd, ro, cnt>>, SPI_execute(Image, cmd, ro, cnt))

\* argtypes and values are parallel arrays of nargs >= 0 entries, both null or
\* both present; nulls is null or comes with them.
Call_SPI_execute_with_args ==
    \E cmd \in Ptrs, nargs \in Sizes, arrays \in Ptrs, nulls \in Ptrs,
       ro \in Flags, cnt \in Ints :
        /\ nulls \in {NULL, arrays}
        /\ Invoke("SPI_execute_with_args",
               <<cmd, nargs, arrays, arrays, nulls, ro, cnt>>,
               SPI_execute_with_args(Image, cmd, nargs, arrays, arrays, nulls, ro, cnt))

Call_SPI_getbinval ==
    \E tuple \in Ptrs, tupdesc \in Ptrs, fnumber \in Ints, isnull \in IntPtrs :
        Invoke("SPI_getbinval", <<tuple, tupdesc, fnumber, isnull>>,
               SPI_getbinval(Image, tuple, tupdesc, fnumber, isnull))

Call_SPI_gettypeid ==
    \E tupdesc \in Ptrs, fnumber \in Ints :
        Invoke("SPI_gettypeid", <<tupdesc, fnumber>>,
               SPI_gettypeid(Image, tupdesc, fnumber))

Next ==
    \/ Load
    \/ CallerStore
    \/ Call_palloc0
    \/ Call_AllocSetContextCreateInternal
    \/ Call_MemoryContextDelete
    \/ Call_MemoryContextGetParent
    \/ Call_pfree
    \/ Call_CopyErrorData
    \/ Call_FreeErrorData
    \/ Call_errcode
    \/ Call_errmsg
    \/ Call_errdetail
    \/ Call_errhint
    \/ Call_errcontext_msg
    \/ Call_errstart
    \/ Call_errfinish
    \/ Call_GetCurrentTransactionIdIfAny
    \/ Call_IsBinaryCoercible
    \/ Call_format_type_extended
    \/ Call_SPI_connect
    \/ Call_SPI_finish
    \/ Call_SPI_execute
    \/ Call_SPI_execute_with_args
    \/ Call_SPI_getbinval
    \/ Call_SPI_gettypeid

Spec == Init /\ [][Next]_vars

TypeOK ==
    /\ DOMAIN globals = GlobalNames
    /\ heap \in Heaps
    /\ history \in 0 .. 2
    /\ last.fn \in StubNames \cup {"Load", "CallerStore"}

\* ---------------------------------------------------------------- properties
\* The last step was a call of a stand-in.
IsCall == last.fn \in StubNames

\* The body of fn run on args in image m.
Apply(fn, args, m) ==
    CASE fn = "palloc0" -> palloc0(m, args[1])
      [] fn = "AllocSetContextCreateInternal" ->
            AllocSetContextCreateInternal(m, args[1], args[2], args[3], args[4], args[5])
      [] fn = "MemoryContextDelete" -> MemoryContextDelete(m, args[1])
      [] fn = "MemoryContextGetParent" -> MemoryContextGetParent(m, args[1])
      [] fn = "pfree" -> pfree(m, args[1])
      [] fn = "CopyErrorData" -> CopyErrorData(m)
      [] fn = "FreeErrorData" -> FreeErrorData(m, args[1])
      [] fn = "errcode" -> errcode(m, args[1])
      [] fn = "errmsg" -> errmsg(m, args[1], args[2])
      [] fn = "errdetail" -> errdetail(m, args[1], args[2])
      [] fn = "errhint" -> errhint(m, args[1], args[2])
      [] fn = "errcontext_msg" -> errcontext_msg(m, args[1], args[2])
      [] fn = "errstart" -> errstart(m, args[1], args[2])
      [] fn = "errfinish" -> errfinish(m, args[1], args[2], args[3])
      [] fn = "GetCurrentTransactionIdIfAny" -> GetCurrentTransactionIdIfAny(m)
      [] fn = "IsBinaryCoercible" -> IsBinaryCoercible(m, args[1], args[2])
      [] fn = "format_type_extended" -> format_type_extended(m, args[1], args[2], args[3])
      [] fn = "SPI_connect" -> SPI_connect(m)
      [] fn = "SPI_finish" -> SPI_finish(m)
      [] fn = "SPI_execute" -> SPI_execute(m, args[1], args[2], args[3])
      [] fn = "SPI_execute_with_args" ->
            SPI_execute_with_args(m, args[1], args[2], args[3], args[4], args[5],
                                  args[6], args[7])
      [] fn = "SPI_getbinval" -> SPI_getbinval(m, args[1], args[2], args[3], args[4])
      [] fn = "SPI_gettypeid" -> SPI_gettypeid(m, args[1], args[2])

\* The image of a freshly loaded library in a process whose cells hold hp.
FreshImage(hp) == [globals |-> LoadGlobals, heap |-> hp, written |-> {}, fault |-> FALSE]

\* What SPI_getbinval leaves in the cell isnull points to, <<>> where there
\* is no out-parameter (another function, or a null isnull).
OutParam(fn, args, hp) ==
    IF fn = "SPI_getbinval" /\ args[4] # NULL THEN <<hp[args[4]]>> ELSE <<>>

C2_GetbinvalNullAndFlag ==
    last.fn = "SPI_getbinval"
        => /\ last.ret = <<NULL>>
           /\ last.args[4] # NULL => heap[last.args[4]] = 1

C2_Witness ==
    /\ last.fn = "SPI_getbinval"
    /\ last.args[1] # NULL
    /\ last.args[2] # NULL
    /\ last.args[3] > 0
    /\ last.args[4] # NULL
    /\ last.before.heap[last.args[4]] = 0
    /\ heap[last.args[4]] = 1

\* C3: in every reachable state every global holds its load-time value: the
\* nine memory contexts, error_context_stack, PG_exception_stack and
\* SPI_tuptable are NULL and SPI_processed is 0.
C3_GlobalsKeepLoadValues ==
    /\ \A n \in GlobalPtrNames : globals[n] = NULL
    /\ globals.SPI_processed = 0

C3_Witness ==
    /\ last.fn = "SPI_execute"
    /\ history = 2
    /\ last.args[1] # NULL
    /\ last.args[3] > 0
    /\ globals.SPI_processed = 0
    /\ globals.SPI_tuptable = NULL

\* The three failure signals of a call: a null result, a zero or negative
\* status, a null-flag the call has set.
NullResult == last.fn \in PtrNames /\ last.ret = <<NULL>>
NonPositiveStatus == last.fn \in IntNames /\ last.ret # <<>> /\ last.ret[1] <= 0
NullFlagSet ==
    /\ last.fn = "SPI_getbinval"
    /\ last.args[4] \in last.written
    /\ heap[last.args[4]] = 1
FailureSignal == NullResult \/ NonPositiveStatus \/ NullFlagSet

C5_CallsChangeNothing ==
    IsCall => globals = last.before.globals /\ heap = last.before.heap

\* C5 as amended: a call of any stand-in changes no global, and changes no
\* memory of the caller but the int a non-null isnull of SPI_getbinval points
\* to, which it sets to 1.
C5_CallsChangeOnlyIsnull ==
    IsCall =>
        /\ globals = last.before.globals
        /\ \A c \in Cells :
              heap[c] # last.before.heap[c]
                  => last.fn = "SPI_getbinval" /\ c = last.args[4] /\ heap[c] = 1

C5_Witness ==
    /\ last.fn = "SPI_getbinval"
    /\ last.args[4] # NULL
    /\ heap # last.before.heap
    /\ \E c \in Cells : c # last.args[4] /\ heap[c] = 0

C7_ErrorReportersReturnZero ==
    last.fn \in {"errcode", "errmsg", "errdetail", "errhint", "errcontext_msg", "errstart"}
        => /\ last.ret = <<0>>
           /\ globals.error_context_stack = last.before.globals.error_context_stack
           /\ globals.PG_exception_stack = last.before.globals.PG_exception_stack

C7_Witness ==
    /\ last.fn = "errcode"
    /\ last.args[1] > 0
    /\ last.ret = <<0>>

\* C8: what a call returns and leaves in its out-parameter does not depend on
\* the history before it: after any history it is what the same call with the
\* same arguments yields in a freshly loaded library, whatever the caller's
\* memory holds there.  (Any two histories then agree with each other.)
C8_ResultIndependentOfHistory ==
    IsCall =>
        \A hp \in Heaps :
            LET fresh == Apply(last.fn, last.args, FreshImage(hp))
            IN /\ fresh.ret = last.ret
               /\ OutParam(last.fn, last.args, fresh.m.heap)
                      = OutParam(last.fn, last.args, heap)

C8_Witness ==
    /\ last.fn = "SPI_getbinval"
    /\ history = 2
    /\ last.args[4] # NULL
    /\ \E c \in Cells : last.before.heap[c] # 0

\* C9: SPI_getbinval called with a null isnull stores through no pointer, takes
\* no fault and returns NULL; it stores (the value 1) exactly when isnull is
\* not null, and then through isnull only.
C9_GetbinvalGuardsIsnull ==
    last.fn = "SPI_getbinval"
        => /\ ~last.fault
           /\ last.ret = <<NULL>>
           /\ last.written = (IF last.args[4] # NULL THEN {last.args[4]} ELSE {})
           /\ last.args[4] = NULL => heap = last.before.heap

C9_Witness ==
    /\ last.fn = "SPI_getbinval"
    /\ last.args[4] = NULL
    /\ last.written = {}
    /\ \E c \in Cells : heap[c] = 0

\* C10: GetCurrentTransactionIdIfAny, IsBinaryCoercible and SPI_gettypeid
\* return 0 for every input, IsBinaryCoercible for equal type OIDs too.
C10_HelpersReturnZero ==
    last.fn \in {"GetCurrentTransactionIdIfAny", "IsBinaryCoercible", "SPI_gettypeid"}
        => last.ret = <<0>>

C10_Witness ==
    /\ last.fn = "IsBinaryCoercible"
    /\ last.args[1] = last.args[2]
    /\ last.args[1] # 0
    /\ last.ret = <<0>>
====
